---- MODULE Spec2Model ----
(***************************************************************************)
(* A model of the photo viewer's local visual-similarity engine:           *)
(*   photo-viewer/src/services/embeddingService.ts  (model load, per-item  *)
(*       embedding generation, batch indexing),                            *)
(*   src/services/indexedDBService.ts               (the embedding cache), *)
(*   photo-viewer/src/App.tsx                       (startIndexing, the    *)
(*       indexing effect, loadMediaFiles).                                 *)
(*                                                                         *)
(* JavaScript runs one job at a time, so every action below is one job:    *)
(* the code an async function runs between two awaits that wait for real   *)
(* asynchronous work (the model download, an IndexedDB request, a frame    *)
(* decode, an inference).  An await of a promise that is already settled   *)
(* by the same job chain (the return of an inner async function) only      *)
(* queues a microtask, which runs before any other event; it is folded     *)
(* into the job that settles it.                                           *)
(***************************************************************************)
EXTENDS Integers, Sequences, FiniteSets, TLC

\* ------------------------------------------------------------------ bounds
NumTasks == 3       \* async call chains that may be in flight together
MaxLoads == 2       \* pipeline() calls in one behaviour (model load attempts)
MaxFiles == 2       \* items in one collection
MaxRuns == 2        \* startIndexing calls in flight together

Tasks == 1..NumTasks
Paths == {"a", "b"}
LastMods == {1, 2}

\* A MediaFile, as far as indexing reads it: path and lastModified
\* (types.ts MediaFile; the File handle is what FrameExtractor decodes).
MediaFile == [path : Paths, lastModified : LastMods]

RECURSIVE PathsOf(_)
PathsOf(fs) == IF fs = <<>> THEN {} ELSE {Head(fs).path} \cup PathsOf(Tail(fs))

\* The collections the UI hands over: non-empty, paths unique within one.
Collections ==
  {fs \in UNION {[1..n -> MediaFile] : n \in 1..MaxFiles} :
     \A x, y \in 1..Len(fs) : x # y => fs[x].path # fs[y].path}

VARIABLES
  clipModel,          \* embeddingService.ts: clipModel # null
  isModelLoading,     \* embeddingService.ts: isModelLoading
  modelLoadPromise,   \* embeddingService.ts: 0 is null, k is the k-th promise
  promises,           \* the promises pipeline() has returned, by age
  cache,              \* the IndexedDB object store 'embeddings'
  task,               \* the async call chains in flight
  files,              \* App: files
  embeddings,         \* App: embeddings (the session index)
  indexingProgress,   \* App: indexingProgress
  indexingError,      \* App: indexingError
  aiEnabled,          \* App: settings.aiEnabled
  prevRun,            \* the last batch call that returned to the harness
  displayFiles,       \* App: displayFiles
  clusters,           \* App: clusters
  call,               \* the last call of a pure service function and its outcome
  viewer,             \* App: viewMode.type, viewerFile, viewerIndex, showClusters
  db                  \* indexedDBService.ts: dbInstance, and the openDB calls made

svcVars == <<clipModel, isModelLoading, modelLoadPromise, promises>>
appVars == <<files, embeddings, indexingProgress, indexingError, aiEnabled>>
viewVars == <<displayFiles, clusters, call, viewer, db>>
vars == <<clipModel, isModelLoading, modelLoadPromise, promises, cache, task,
          files, embeddings, indexingProgress, indexingError, aiEnabled, prevRun,
          displayFiles, clusters, call, viewer, db>>

\* ------------------------------------------------------------ Map helpers
\* A JavaScript Map<string, number[]> as a set of <<key, value>> pairs with
\* one pair per key.
MapKeys(m) == {kv[1] : kv \in m}
MapSet(m, k, v) == {kv \in m : kv[1] # k} \cup {<<k, v>>}
MapSize(m) == Cardinality(m)

\* ---------------------------------------------------------------- the model
\* What the CLIP pipeline returns for an item's frame: opaque, a function of
\* the file's content, which path and lastModified identify.
CLIP(f) == <<f.path, f.lastModified>>

\* An embedding written by an earlier session under an older model.
LegacyEmbedding(p) == <<p, 0>>

\* ------------------------------------------------------------------- tasks
IdleTask ==
  [pc |-> "idle",          \* where the chain is suspended
   ret |-> "none",         \* who awaits initializeModel: direct, startIndexing, generateEmbedding
   prom |-> 0,             \* the model-load promise the chain awaits
   role |-> "none",        \* in initializeModel: loader (started the load) or waiter
   initRes |-> "none",     \* how the chain's last initializeModel call ended
   owner |-> "none",       \* who called batchGenerateEmbeddings: harness or app
   files |-> <<>>,         \* batchGenerateEmbeddings: files
   i |-> 0,                \* batchGenerateEmbeddings: the loop index, 1-based
   emb |-> {},             \* batchGenerateEmbeddings: embeddings
   progress |-> <<>>,      \* the onProgress calls made, in order
   failed |-> <<>>,        \* the items whose generateEmbedding threw, in order
   errCb |-> <<>>,         \* the items handed to the per-item error callback
   attempts |-> 0,         \* generateEmbedding calls of this run
   extractCalls |-> 0,     \* frame extractions started in this run
   modelCalls |-> 0,       \* model inferences started in this run
   loadCalls |-> 0,        \* model loads started by this run
   errs |-> <<>>]          \* startIndexing: the messages given to setIndexingError

\* --------------------------------------------------------------- the cache
\* indexedDBService.ts: the object store, keyPath 'path'.  A record is an
\* EmbeddingCache {path, lastModified, embedding, thumbnailUrl}.
CacheEntryFor(f, e) ==
  [path |-> f.path, lastModified |-> f.lastModified, embedding |-> e,
   thumbnailUrl |-> f.path]

\* Mutant: a put that stores nothing.
PutNothing(store, entry) == store

\* Mutant: a put that adds the record and keeps the one stored before.
PutAppends(store, entry) == store \cup {entry}

\* Mutant: a put that drops the records of the other paths.
PutAndDropOthers(store, entry) == {entry}

\* db.put(STORE_NAME, cache): replaces the record stored under the same key.
Put(store, entry) == {x \in store : x.path # entry.path} \cup {entry}

\* db.get(STORE_NAME, path): the records under the key (none, or one).
Get(store, p) == {x \in store : x.path = p}

\* Mutants: the cache is never consulted; the timestamp is not compared.
CacheHitNever(f) == FALSE
CacheHitAnyVersion(f) == Get(cache, f.path) # {}

\* generateEmbedding's test `cached && cached.lastModified === mediaFile.lastModified`.
CacheHit(f) == \E x \in Get(cache, f.path) : x.lastModified = f.lastModified

CachedEmbedding(f) == (CHOOSE x \in Get(cache, f.path) : TRUE).embedding

\* What an earlier session can have left in the store.
InitialCaches ==
  {{[path |-> p, lastModified |-> 1, embedding |-> LegacyEmbedding(p),
     thumbnailUrl |-> p] : p \in ps} : ps \in SUBSET Paths}

\* ------------------------------------------------------ App: messages, state
NoError == ""
InitFailedMsg == "Failed to initialize AI"
NoEmbeddingsMsg == "Failed to generate any embeddings"

IdleProgress == [total |-> 0, processed |-> 0, isIndexing |-> FALSE]

\* The App state a job has written so far: embeddings, indexingProgress and
\* indexingError.  A job's code passes it along and Commit stores it.
Now == [em |-> embeddings, ip |-> indexingProgress, ie |-> indexingError]

Commit(t, s, a) ==
  /\ task' = [task EXCEPT ![t] = s]
  /\ embeddings' = a.em
  /\ indexingProgress' = a.ip
  /\ indexingError' = a.ie

\* ----------------------------------------------- batchGenerateEmbeddings
\* Mutant: startIndexing sets no message when the map is empty.
BatchReturnsSilently(t, s, a) ==
  IF s.owner = "app"
  THEN Commit(t, [s EXCEPT !.pc = "done"], [a EXCEPT !.em = s.emb])
  ELSE Commit(t, [s EXCEPT !.pc = "done"], a)

\* startIndexing after `await batchGenerateEmbeddings(...)` (App.tsx 78-82):
\* setEmbeddings, and the degraded-AI message when the map is empty.  In the
\* harness the map is simply handed back.
BatchReturns(t, s, a) ==
  IF s.owner = "app"
  THEN IF MapSize(s.emb) = 0
       THEN Commit(t, [s EXCEPT !.pc = "done",
                                !.errs = Append(s.errs, NoEmbeddingsMsg)],
                   [a EXCEPT !.em = s.emb, !.ie = NoEmbeddingsMsg])
       ELSE Commit(t, [s EXCEPT !.pc = "done"], [a EXCEPT !.em = s.emb])
  ELSE Commit(t, [s EXCEPT !.pc = "done"], a)

\* The for loop's step: the next generateEmbedding call (which suspends in
\* getEmbedding), or the return of the map after the last item.
ItemDone(t, s, a) ==
  IF s.i < Len(s.files)
  THEN Commit(t, [s EXCEPT !.i = s.i + 1, !.pc = "getEmbedding",
                           !.attempts = s.attempts + 1], a)
  ELSE BatchReturns(t, s, a)

\* The onProgress callback called with (processed, total): App's callback
\* (App.tsx 66-72) stores them in indexingProgress; the harness's only records.
OnProgress(s, a, processed, total) ==
  IF s.owner = "app"
  THEN [a EXCEPT !.ip = [total |-> total, processed |-> processed,
                         isIndexing |-> processed < total]]
  ELSE a

\* The try block after generateEmbedding returned e (lines 109-114):
\* embeddings.set, then onProgress(i + 1, files.length).
ItemSucceeded(t, s, a, e) ==
  ItemDone(t, [s EXCEPT !.emb = MapSet(s.emb, s.files[s.i].path, e),
                        !.progress = Append(s.progress, <<s.i, Len(s.files)>>)],
           OnProgress(s, a, s.i, Len(s.files)))

\* Mutant: a failing item ends the loop (the error leaves the batch).
ItemFailedAborts(t, s, a) ==
  BatchReturns(t, [s EXCEPT !.failed = Append(s.failed, s.i)], a)

\* The catch block (lines 115-117): console.error only.  The function declares
\* (files, onProgress): a third argument, App's per-item error callback, is
\* dropped, and onProgress is not called on this path.
ItemFailed(t, s, a) ==
  ItemDone(t, [s EXCEPT !.failed = Append(s.failed, s.i)], a)

\* batchGenerateEmbeddings(files, onProgress): a new Map, then the loop.
BatchCall(t, s, a) == ItemDone(t, [s EXCEPT !.emb = {}, !.i = 0], a)

\* ------------------------------------------------------- initializeModel
\* Mutant: startIndexing does not reset the progress before the batch.
AfterInitOkNoReset(t, s, a) ==
  CASE s.ret = "startIndexing" -> BatchCall(t, [s EXCEPT !.initRes = "ok"], a)
    [] s.ret = "generateEmbedding" ->
         Commit(t, [s EXCEPT !.initRes = "ok", !.pc = "extract",
                             !.extractCalls = s.extractCalls + 1], a)
    [] OTHER ->
         Commit(t, [s EXCEPT !.initRes = "ok", !.pc = "done"], a)

\* The caller's continuation after `await initializeModel()` returned.
AfterInitOk(t, s, a) ==
  CASE s.ret = "startIndexing" ->
         \* App.tsx 58-64: setIndexingProgress(total, 0, true), then the batch
         BatchCall(t, [s EXCEPT !.initRes = "ok"],
                   [a EXCEPT !.ip = [total |-> Len(s.files), processed |-> 0,
                                     isIndexing |-> TRUE]])
    [] s.ret = "generateEmbedding" ->
         \* embeddingService.ts 54-55: getImageDataURL starts the extraction
         Commit(t, [s EXCEPT !.initRes = "ok", !.pc = "extract",
                             !.extractCalls = s.extractCalls + 1], a)
    [] OTHER ->
         Commit(t, [s EXCEPT !.initRes = "ok", !.pc = "done"], a)

\* Mutant: startIndexing swallows the load error and runs the batch.
AfterInitThrowGoesOn(t, s, a) ==
  CASE s.ret = "startIndexing" ->
         BatchCall(t, [s EXCEPT !.initRes = "threw"], a)
    [] s.ret = "generateEmbedding" ->
         ItemFailed(t, [s EXCEPT !.initRes = "threw"], a)
    [] OTHER ->
         Commit(t, [s EXCEPT !.initRes = "threw", !.pc = "done"], a)

\* The caller's continuation after `await initializeModel()` threw.
AfterInitThrow(t, s, a) ==
  CASE s.ret = "startIndexing" ->
         \* App.tsx 83-92: the catch block of startIndexing
         Commit(t, [s EXCEPT !.initRes = "threw", !.pc = "done",
                             !.errs = Append(s.errs, InitFailedMsg)],
                [a EXCEPT !.ie = InitFailedMsg, !.ip = IdleProgress])
    [] s.ret = "generateEmbedding" ->
         \* the call is outside generateEmbedding's try: the batch's catch gets it
         ItemFailed(t, [s EXCEPT !.initRes = "threw"], a)
    [] OTHER ->
         Commit(t, [s EXCEPT !.initRes = "threw", !.pc = "done"], a)

\* Mutant: a load in flight is not noticed.
LoadInFlightNever == FALSE

\* initializeModel's second test (line 16): `isModelLoading && modelLoadPromise`.
LoadInFlight == isModelLoading /\ modelLoadPromise # 0

\* initializeModel up to its first await (lines 13-24), or through its return
\* when the model is there.
InitializeModelCall(t, s, a) ==
  IF clipModel
  THEN /\ UNCHANGED svcVars
       /\ AfterInitOk(t, s, a)
  ELSE IF LoadInFlight
  THEN /\ UNCHANGED svcVars
       /\ Commit(t, [s EXCEPT !.pc = "awaitWait", !.prom = modelLoadPromise,
                              !.role = "waiter"], a)
  ELSE /\ Len(promises) < MaxLoads
       /\ isModelLoading' = TRUE
       /\ promises' = Append(promises, "pending")
       /\ modelLoadPromise' = Len(promises) + 1
       /\ clipModel' = clipModel
       /\ Commit(t, [s EXCEPT !.pc = "awaitLoad", !.prom = Len(promises) + 1,
                              !.role = "loader", !.loadCalls = s.loadCalls + 1], a)

\* Mutant: the flag is left set.
FinallyLoadingStuck == isModelLoading

\* The finally block (lines 30-32): isModelLoading = false.
FinallyLoading == FALSE

\* pipeline()'s promise settles: the model is there, or the load failed.
PipelineSettles(k, ok) ==
  /\ k \in 1..Len(promises)
  /\ promises[k] = "pending"
  /\ promises' = [promises EXCEPT ![k] = IF ok THEN "fulfilled" ELSE "rejected"]
  /\ UNCHANGED <<clipModel, isModelLoading, modelLoadPromise, cache, task,
                 appVars, prevRun, viewVars>>

\* initializeModel resumes in the call that started the load (lines 23-32).
LoaderResume(t) ==
  LET s == task[t] IN
  /\ s.pc = "awaitLoad"
  /\ promises[s.prom] # "pending"
  /\ isModelLoading' = FinallyLoading
  /\ UNCHANGED <<modelLoadPromise, promises, cache, files, aiEnabled, prevRun, viewVars>>
  /\ IF promises[s.prom] = "fulfilled"
     THEN /\ clipModel' = TRUE
          /\ AfterInitOk(t, s, Now)
     ELSE /\ clipModel' = clipModel
          /\ AfterInitThrow(t, s, Now)

\* initializeModel resumes in a call that found a load in flight (lines 16-19).
\* Promise reactions run in the order they were registered, and the loader
\* awaits the promise in the job that created it: it resumes first.
WaiterResume(t) ==
  LET s == task[t] IN
  /\ s.pc = "awaitWait"
  /\ promises[s.prom] # "pending"
  /\ \A u \in Tasks : ~(task[u].pc = "awaitLoad" /\ task[u].prom = s.prom)
  /\ UNCHANGED <<svcVars, cache, files, aiEnabled, prevRun, viewVars>>
  /\ IF promises[s.prom] = "fulfilled"
     THEN AfterInitOk(t, s, Now)
     ELSE AfterInitThrow(t, s, Now)

\* A caller outside the batch calls initializeModel.
CallInitializeModel(t) ==
  /\ task[t].pc = "idle"
  /\ InitializeModelCall(t, [IdleTask EXCEPT !.ret = "direct"], Now)
  /\ UNCHANGED <<cache, files, aiEnabled, prevRun, viewVars>>

NoRun == [files |-> <<>>, emb |-> {}, failed |-> <<>>]

\* The caller takes the outcome; the chain is over.
Return(t) ==
  /\ task[t].pc = "done"
  /\ task' = [task EXCEPT ![t] = IdleTask]
  /\ prevRun' = IF task[t].owner = "harness"
                THEN [files |-> task[t].files, emb |-> task[t].emb,
                      failed |-> task[t].failed]
                ELSE prevRun
  /\ UNCHANGED <<svcVars, cache, appVars, viewVars>>

\* ------------------------------------------------------ generateEmbedding
\* `await getEmbedding(path)` returned or threw (lines 44-55).  A hit returns
\* the cached embedding; otherwise the model is loaded if it is not there, and
\* the frame extraction starts.
GetEmbeddingResume(t) ==
  LET s == task[t]
      f == s.files[s.i] IN
  /\ s.pc = "getEmbedding"
  /\ UNCHANGED <<cache, files, aiEnabled, prevRun, viewVars>>
  /\ \/ \* the store cannot be read: getEmbedding rejects
        /\ UNCHANGED svcVars
        /\ ItemFailed(t, s, Now)
     \/ IF CacheHit(f)
        THEN /\ UNCHANGED svcVars
             /\ ItemSucceeded(t, s, Now, CachedEmbedding(f))
        ELSE IF clipModel
        THEN /\ UNCHANGED svcVars
             /\ Commit(t, [s EXCEPT !.pc = "extract",
                                    !.extractCalls = s.extractCalls + 1], Now)
        ELSE InitializeModelCall(t, [s EXCEPT !.ret = "generateEmbedding"], Now)

\* The frame is there (getImageDataURL, the image decode, the canvas: lines
\* 55-72) or one of them threw; then the inference starts (line 74).
ExtractResume(t) ==
  LET s == task[t] IN
  /\ s.pc = "extract"
  /\ UNCHANGED <<svcVars, cache, files, aiEnabled, prevRun, viewVars>>
  /\ \/ ItemFailed(t, s, Now)
     \/ Commit(t, [s EXCEPT !.pc = "infer", !.modelCalls = s.modelCalls + 1], Now)

\* `await clipModel(imageUrl, ...)` returned or threw; then saveEmbedding is
\* called with the new record (lines 74-88).
InferResume(t) ==
  LET s == task[t] IN
  /\ s.pc = "infer"
  /\ UNCHANGED <<svcVars, cache, files, aiEnabled, prevRun, viewVars>>
  /\ \/ ItemFailed(t, s, Now)
     \/ Commit(t, [s EXCEPT !.pc = "saveEmbedding"], Now)

\* `await saveEmbedding(cache)` returned (the record is stored) or threw (it is
\* not); on return generateEmbedding returns the embedding (lines 88-94).
SaveEmbeddingResume(t) ==
  LET s == task[t]
      f == s.files[s.i] IN
  /\ s.pc = "saveEmbedding"
  /\ UNCHANGED <<svcVars, files, aiEnabled, prevRun, viewVars>>
  /\ \/ /\ cache' = cache
        /\ ItemFailed(t, s, Now)
     \/ /\ cache' = Put(cache, CacheEntryFor(f, CLIP(f)))
        /\ ItemSucceeded(t, s, Now, CLIP(f))

\* No pure service function has been called.
NoCall == [op |-> "none"]

\* App's useState values: the grid is shown, no file is in the viewer.
ClosedViewer ==
  [viewMode |-> "grid", viewerFile |-> [null |-> TRUE], viewerIndex |-> 0,
   showClusters |-> FALSE]

\* `let dbInstance = null`; openDB has not been called.
NoDB == [dbInstance |-> 0, openCalls |-> 0]

InitCommon ==
  /\ clipModel = FALSE
  /\ isModelLoading = FALSE
  /\ modelLoadPromise = 0
  /\ promises = <<>>
  /\ task = [t \in Tasks |-> IdleTask]
  /\ files = <<>>
  /\ embeddings = {}
  /\ indexingProgress = IdleProgress
  /\ indexingError = NoError
  /\ aiEnabled = TRUE
  /\ prevRun = NoRun
  /\ displayFiles = <<>>
  /\ clusters = <<>>
  /\ call = NoCall
  /\ viewer = ClosedViewer
  /\ db = NoDB

\* ------------------------------------------- sequential batch calls (harness)
\* A caller runs batchGenerateEmbeddings(fs, onProgress, onItemError) when no
\* other call is in flight.
CallBatch(fs) ==
  /\ \A t \in Tasks : task[t].pc = "idle"
  /\ BatchCall(1, [IdleTask EXCEPT !.owner = "harness", !.files = fs], Now)
  /\ UNCHANGED <<svcVars, cache, files, aiEnabled, prevRun, viewVars>>

Init == InitCommon /\ cache \in InitialCaches

Next ==
  \/ \E fs \in Collections : CallBatch(fs)
  \/ \E k \in 1..MaxLoads, ok \in BOOLEAN : PipelineSettles(k, ok)
  \/ \E t \in Tasks : LoaderResume(t)
  \/ \E t \in Tasks : GetEmbeddingResume(t)
  \/ \E t \in Tasks : ExtractResume(t)
  \/ \E t \in Tasks : InferResume(t)
  \/ \E t \in Tasks : SaveEmbeddingResume(t)
  \/ \E t \in Tasks : Return(t)

Spec == Init /\ [][Next]_vars

\* ----------------------------------------- concurrent initializeModel callers
InitLoad == InitCommon /\ cache = {}

NextLoad ==
  \/ \E t \in Tasks : CallInitializeModel(t)
  \/ \E k \in 1..MaxLoads, ok \in BOOLEAN : PipelineSettles(k, ok)
  \/ \E t \in Tasks : LoaderResume(t)
  \/ \E t \in Tasks : WaiterResume(t)
  \/ \E t \in Tasks : Return(t)

SpecLoad == InitLoad /\ [][NextLoad]_vars

\* ------------------------------------------------------------------ the App
\* The startIndexing calls that have not run to their end.  Nothing awaits the
\* promise startIndexing returns (the effect drops it), so a finished call's
\* record stays until the next call takes its place.
Running == {t \in Tasks : task[t].pc \notin {"idle", "done"}}

FreeTask == CHOOSE t \in Tasks \ Running : \A u \in Tasks \ Running : t <= u

\* The effect on [files, settings.aiEnabled] (App.tsx 47-51) as it runs after a
\* render with files fs, the switch ai and the App state a; startIndexing
\* (53-56) runs in it through initializeModel's first await.
IndexingEffect(fs, ai, a) ==
  IF ai /\ Len(fs) > 0 /\ MapSize(a.em) = 0
  THEN /\ Cardinality(Running) < MaxRuns
       /\ InitializeModelCall(FreeTask,
            [IdleTask EXCEPT !.owner = "app", !.ret = "startIndexing", !.files = fs],
            [a EXCEPT !.ie = NoError])
  ELSE /\ UNCHANGED <<svcVars, task>>
       /\ embeddings' = a.em
       /\ indexingProgress' = a.ip
       /\ indexingError' = a.ie

\* loadMediaFiles(mediaFiles) (App.tsx 111-120), and the effect its render runs.
LoadMediaFiles(fs) ==
  /\ files' = fs
  /\ displayFiles' = fs
  /\ viewer' = [viewer EXCEPT !.showClusters = FALSE, !.viewMode = "grid"]
  /\ IndexingEffect(fs, aiEnabled, [Now EXCEPT !.em = {}, !.ie = NoError])
  /\ UNCHANGED <<cache, aiEnabled, prevRun, clusters, call, db>>

\* Settings: the AI switch is clicked (aiEnabled: !settings.aiEnabled), and the
\* effect its render runs.
ToggleAi ==
  /\ aiEnabled' = ~aiEnabled
  /\ IndexingEffect(files, ~aiEnabled, Now)
  /\ UNCHANGED <<cache, files, prevRun, viewVars>>

\* The folders opened in the App runs: a folder of files an earlier session
\* may have cached, as it is and after a file was added to it.
AppCollections ==
  {fs \in Collections :
     /\ fs[1].path = "a"
     /\ \A x \in 1..Len(fs) : fs[x].lastModified = 1}

InitApp == InitCommon /\ cache = {}

NextApp ==
  \/ \E fs \in AppCollections : LoadMediaFiles(fs)
  \/ ToggleAi
  \/ \E k \in 1..MaxLoads, ok \in BOOLEAN : PipelineSettles(k, ok)
  \/ \E t \in Tasks : LoaderResume(t)
  \/ \E t \in Tasks : WaiterResume(t)
  \/ \E t \in Tasks : GetEmbeddingResume(t)
  \/ \E t \in Tasks : ExtractResume(t)
  \/ \E t \in Tasks : InferResume(t)
  \/ \E t \in Tasks : SaveEmbeddingResume(t)

SpecApp == InitApp /\ [][NextApp]_vars

\* ------------------------------------------------------ embedding vectors
MaxDim == 2         \* the longest vector
MaxSimFiles == 3    \* items in a collection handed to the similarity search

\* number[] values: integer coordinates stand for the floats, and arithmetic
\* on them is exact.
VectorsOver(coords) ==
  {v \in UNION {[1..n -> coords] : n \in 1..MaxDim} : \E k \in 1..Len(v) : v[k] # 0}

Vectors == VectorsOver(-1..1)

\* What the index holds: the pipeline normalizes its output (normalize: true),
\* so no zero vector; a cached embedding of another model may be shorter.
IndexVectors == VectorsOver(0..1)

PathNames == <<"a", "b", "c", "d", "e">>
SimFile(k) == [path |-> PathNames[k], lastModified |-> 1]
SimPaths == {PathNames[k] : k \in 1..MaxSimFiles}
SimCollections == {[k \in 1..n |-> SimFile(k)] : n \in 0..MaxSimFiles}

\* The Map<string, number[]> values over the paths ps.
IndexesOver(ps, vs) ==
  UNION {{{<<p, g[p]>> : p \in qs} : g \in [qs -> vs]} : qs \in SUBSET ps}

MapHas(m, k) == k \in MapKeys(m)
MapGet(m, k) == (CHOOSE kv \in m : kv[1] = k)[2]

\* How a call of a pure function ends.
Threw(msg) == [kind |-> "error", message |-> msg]
Returned(v) == [kind |-> "value", value |-> v]

\* The value of `sum` after a loop that adds the terms q[1], q[2], ... to 0.
RECURSIVE Sum(_)
Sum(q) == IF q = <<>> THEN 0 ELSE Head(q) + Sum(Tail(q))

\* cosineSimilarity(a, b) (embeddingService.ts 123-139).  The number returned
\* is dot / (sqrt(normA) * sqrt(normB)); it is kept as the three sums, and NaN
\* when a norm is 0.
cosineSimilarity(a, b) ==
  IF Len(a) # Len(b)
  THEN Threw("Vectors must have the same length")
  ELSE LET dotProduct == Sum([i \in 1..Len(a) |-> a[i] * b[i]])
           normA == Sum([i \in 1..Len(a) |-> a[i] * a[i]])
           normB == Sum([i \in 1..Len(a) |-> b[i] * b[i]]) IN
       IF normA * normB = 0
       THEN [kind |-> "NaN"]
       ELSE [kind |-> "number", dot |-> dotProduct, norms |-> normA * normB]

\* x > y for two numbers dot / sqrt(norms): the signed squares are compared.
SignedSquare(d) == IF d < 0 THEN 0 - d * d ELSE d * d
Greater(x, y) == SignedSquare(x.dot) * y.norms > SignedSquare(y.dot) * x.norms

\* The sum of the squared differences over the indices of a; a[i] - b[i] is
\* NaN where b has no element i.  The distance is the square root of the sum.
SquaredDifferences(a, b) ==
  IF Len(a) > Len(b)
  THEN [kind |-> "NaN"]
  ELSE [kind |-> "number",
        squared |-> Sum([i \in 1..Len(a) |-> (a[i] - b[i]) * (a[i] - b[i])])]

\* The exported euclideanDistance(a, b) (embeddingService.ts 141-153).
euclideanDistance(a, b) ==
  IF Len(a) # Len(b)
  THEN Threw("Vectors must have the same length")
  ELSE SquaredDifferences(a, b)

\* clusteringService.ts' own euclideanDistance(a, b) (76-83): no length test.
localEuclideanDistance(a, b) == SquaredDifferences(a, b)

\* ------------------------------------------------------- sortBySimilarity
\* Array.prototype.sort with the comparator (a, b) => b.similarity -
\* a.similarity: a stable sort, so an element goes before the first one that
\* is strictly less similar and behind every one that compares equal.
RECURSIVE InsertBySimilarity(_, _)
InsertBySimilarity(sorted, x) ==
  IF sorted = <<>>
  THEN <<x>>
  ELSE IF Greater(x.similarity, Head(sorted).similarity)
       THEN <<x>> \o sorted
       ELSE <<Head(sorted)>> \o InsertBySimilarity(Tail(sorted), x)

RECURSIVE SortBySimilarityDescending(_)
SortBySimilarityDescending(q) ==
  IF q = <<>>
  THEN <<>>
  ELSE InsertBySimilarity(SortBySimilarityDescending(SubSeq(q, 1, Len(q) - 1)),
                          q[Len(q)])

\* sortBySimilarity(targetFile, allFiles, embeddings) (clusteringService.ts
\* 85-103).  `prepended` tells whether the result is [targetFile, ...ranked]
\* or allFiles as it came.
sortBySimilarity(targetFile, allFiles, index) ==
  IF ~MapHas(index, targetFile.path)
  THEN [kind |-> "value", value |-> allFiles, prepended |-> FALSE]
  ELSE LET targetEmbedding == MapGet(index, targetFile.path)
           kept == SelectSeq(allFiles,
                     LAMBDA f : MapHas(index, f.path) /\ f.path # targetFile.path)
           filesWithSimilarity ==
             [k \in 1..Len(kept) |->
                [file |-> kept[k],
                 similarity |-> cosineSimilarity(targetEmbedding,
                                                 MapGet(index, kept[k].path))]]
           sorted == SortBySimilarityDescending(filesWithSimilarity) IN
       IF \E k \in 1..Len(kept) : filesWithSimilarity[k].similarity.kind = "error"
       THEN Threw("Vectors must have the same length")
       ELSE [kind |-> "value",
             value |-> <<targetFile>> \o [k \in 1..Len(sorted) |-> sorted[k].file],
             prepended |-> TRUE]

\* ------------------------------------------- calls of the vector functions
\* Each function reads its arguments only: it is called once on each input.
CallCosineSimilarity(a, b) ==
  /\ call = NoCall
  /\ call' = [op |-> "cosineSimilarity", a |-> a, b |-> b,
              result |-> cosineSimilarity(a, b)]
  /\ UNCHANGED <<svcVars, cache, task, appVars, prevRun, displayFiles, clusters, viewer, db>>

CallEuclideanDistance(a, b) ==
  /\ call = NoCall
  /\ call' = [op |-> "euclideanDistance", a |-> a, b |-> b,
              result |-> euclideanDistance(a, b)]
  /\ UNCHANGED <<svcVars, cache, task, appVars, prevRun, displayFiles, clusters, viewer, db>>

\* clusterByTheme's call euclideanDistance(embedding, centroid).
CallLocalEuclideanDistance(a, b) ==
  /\ call = NoCall
  /\ call' = [op |-> "localEuclideanDistance", a |-> a, b |-> b,
              result |-> localEuclideanDistance(a, b)]
  /\ UNCHANGED <<svcVars, cache, task, appVars, prevRun, displayFiles, clusters, viewer, db>>

InitVec == InitCommon /\ cache = {}

NextVec ==
  \/ \E a, b \in Vectors : CallCosineSimilarity(a, b)
  \/ \E a, b \in Vectors : CallEuclideanDistance(a, b)
  \/ \E a, b \in Vectors : CallLocalEuclideanDistance(a, b)

SpecVec == InitVec /\ [][NextVec]_vars

\* ------------------------------------------------ calls of sortBySimilarity
\* The function reads its arguments only: it is called once on each input.
CallSortBySimilarity(targetFile) ==
  /\ call = NoCall
  /\ call' = [op |-> "sortBySimilarity", targetFile |-> targetFile,
              result |-> sortBySimilarity(targetFile, files, embeddings)]
  /\ UNCHANGED <<svcVars, cache, task, appVars, prevRun, displayFiles, clusters, viewer, db>>

\* The App with a collection loaded and an index of any content, no run in
\* flight.
InitWith(collections, indexes) ==
  /\ clipModel = FALSE
  /\ isModelLoading = FALSE
  /\ modelLoadPromise = 0
  /\ promises = <<>>
  /\ cache = {}
  /\ task = [t \in Tasks |-> IdleTask]
  /\ files \in collections
  /\ embeddings \in indexes
  /\ indexingProgress = IdleProgress
  /\ indexingError = NoError
  /\ aiEnabled = TRUE
  /\ prevRun = NoRun
  /\ displayFiles = files
  /\ clusters = <<>>
  /\ call = NoCall
  /\ viewer = ClosedViewer
  /\ db = NoDB

InitSim == InitWith(SimCollections, IndexesOver(SimPaths, IndexVectors))

NextSim == \E k \in 1..MaxSimFiles : CallSortBySimilarity(SimFile(k))

SpecSim == InitSim /\ [][NextSim]_vars

\* ---------------------------------------------------------- clusterByTheme
MaxClusterFiles == 4   \* items in a collection handed to clusterByTheme

CLUSTER_LABELS ==
  <<"Portraits & People", "Nature & Landscapes", "Indoor Scenes",
    "Documents & Screenshots", "Food & Dining", "Architecture & Buildings",
    "Animals & Pets", "Abstract & Artistic", "Sports & Activities",
    "Miscellaneous">>

\* filesWithEmbeddings[0] of an empty array.
undefined == [undefined |-> TRUE]

Min(x, y) == IF x < y THEN x ELSE y
Max(x, y) == IF x > y THEN x ELSE y

\* Mutants: no upper clamp; a lower clamp of 4.
numClustersUnclamped(n) == Max(3, n \div 10)
numClustersAtLeastFour(n) == Min(Max(4, n \div 10), 10)

\* Math.min(Math.max(3, Math.floor(n / 10)), 10) (lines 33-36).
numClusters(n) == Min(Max(3, n \div 10), 10)

\* The sum of the rows of a matrix whose rows have the length of the first.
RECURSIVE SumRows(_)
SumRows(rows) ==
  IF Len(rows) = 1
  THEN rows[1]
  ELSE LET rest == SumRows(Tail(rows)) IN
       [i \in 1..Len(rows[1]) |-> rows[1][i] + rest[i]]

\* What kmeans(embeddingMatrix, K, ...) of ml-kmeans can return: result.clusters
\* gives every row one of the indices 0..K-1, and result.centroids[i] is the
\* mean of the rows given i, kept as their sum and their number.
KMeansResults(embeddingMatrix, K) ==
  {[clusters |-> c,
    centroids |->
      [i \in 0..(K - 1) |->
         LET rows == SelectSeq([k \in 1..Len(embeddingMatrix) |-> k],
                               LAMBDA k : c[k] = i) IN
         IF rows = <<>>
         THEN [size |-> 0, total |-> <<>>]
         ELSE [size |-> Len(rows),
               total |-> SumRows([k \in 1..Len(rows) |-> embeddingMatrix[rows[k]]])]]]
   : c \in [1..Len(embeddingMatrix) -> 0..(K - 1)]}

\* euclideanDistance(embedding, centroid), times the centroid's size: both
\* vectors are scaled by the size, which is the same for the members compared.
DistanceToCentroid(embedding, centroid) ==
  localEuclideanDistance([i \in 1..Len(embedding) |-> centroid.size * embedding[i]],
                         centroid.total)

\* `distance < minDistance`, minDistance starting at Infinity; false for NaN.
Infinity == [kind |-> "Infinity"]
LessThan(distance, minDistance) ==
  /\ distance.kind = "number"
  /\ \/ minDistance.kind = "Infinity"
     \/ minDistance.kind = "number" /\ distance.squared < minDistance.squared

\* Mutant: the representative is always the member the loop starts with.
NearestIsFirst(clusterFiles, index, centroid, k, representative, minDistance) ==
  representative

\* The loop of lines 56-63 from member k on.
RECURSIVE Nearest(_, _, _, _, _, _)
Nearest(clusterFiles, index, centroid, k, representative, minDistance) ==
  IF k > Len(clusterFiles)
  THEN representative
  ELSE LET distance == DistanceToCentroid(MapGet(index, clusterFiles[k].path), centroid) IN
       IF LessThan(distance, minDistance)
       THEN Nearest(clusterFiles, index, centroid, k + 1, clusterFiles[k], distance)
       ELSE Nearest(clusterFiles, index, centroid, k + 1, representative, minDistance)

\* Mutant: a cluster goes before the ones of its size.
RECURSIVE InsertBySizeBeforeEqual(_, _)
InsertBySizeBeforeEqual(sorted, x) ==
  IF sorted = <<>>
  THEN <<x>>
  ELSE IF Len(x.files) >= Len(Head(sorted).files)
       THEN <<x>> \o sorted
       ELSE <<Head(sorted)>> \o InsertBySizeBeforeEqual(Tail(sorted), x)

\* clusters.sort((a, b) => b.files.length - a.files.length): stable.
RECURSIVE InsertBySize(_, _)
InsertBySize(sorted, x) ==
  IF sorted = <<>>
  THEN <<x>>
  ELSE IF Len(x.files) > Len(Head(sorted).files)
       THEN <<x>> \o sorted
       ELSE <<Head(sorted)>> \o InsertBySize(Tail(sorted), x)

RECURSIVE SortBySizeDescending(_)
SortBySizeDescending(q) ==
  IF q = <<>>
  THEN <<>>
  ELSE InsertBySize(SortBySizeDescending(SubSeq(q, 1, Len(q) - 1)), q[Len(q)])

\* Mutants: the last embedded file is lost; the embedded files are reversed.
FilesWithEmbeddingsButLast(fs, index) ==
  LET kept == SelectSeq(fs, LAMBDA f : MapHas(index, f.path)) IN
  SubSeq(kept, 1, Len(kept) - 1)
FilesWithEmbeddingsReversed(fs, index) ==
  LET kept == SelectSeq(fs, LAMBDA f : MapHas(index, f.path)) IN
  [k \in 1..Len(kept) |-> kept[Len(kept) + 1 - k]]

\* files.filter(f => embeddings.has(f.path)) (line 22).
FilesWithEmbeddings(fs, index) == SelectSeq(fs, LAMBDA f : MapHas(index, f.path))

\* Mutant: a cluster index without files is not skipped.
RECURSIVE ClustersFromKeepingEmpty(_, _, _, _, _)
ClustersFromKeepingEmpty(i, found, filesWithEmbeddings, index, result) ==
  IF i >= numClusters(Len(filesWithEmbeddings))
  THEN found
  ELSE LET clusterFiles ==
             LET idx == SelectSeq([k \in 1..Len(filesWithEmbeddings) |-> k],
                                  LAMBDA k : result.clusters[k] = i) IN
             [k \in 1..Len(idx) |-> filesWithEmbeddings[idx[k]]] IN
       ClustersFromKeepingEmpty(i + 1,
         Append(found,
           [id |-> i,
            label |-> CLUSTER_LABELS[(i % Len(CLUSTER_LABELS)) + 1],
            files |-> clusterFiles,
            representative |->
              IF clusterFiles = <<>>
              THEN undefined
              ELSE Nearest(clusterFiles, index, result.centroids[i], 1,
                           clusterFiles[1], Infinity)]),
         filesWithEmbeddings, index, result)

\* The loop of lines 47-71 from cluster index i on, appending to `found`.
RECURSIVE ClustersFrom(_, _, _, _, _)
ClustersFrom(i, found, filesWithEmbeddings, index, result) ==
  IF i >= numClusters(Len(filesWithEmbeddings))
  THEN found
  ELSE LET clusterFiles ==
             LET idx == SelectSeq([k \in 1..Len(filesWithEmbeddings) |-> k],
                                  LAMBDA k : result.clusters[k] = i) IN
             [k \in 1..Len(idx) |-> filesWithEmbeddings[idx[k]]] IN
       IF clusterFiles = <<>>
       THEN ClustersFrom(i + 1, found, filesWithEmbeddings, index, result)
       ELSE ClustersFrom(i + 1,
              Append(found,
                [id |-> i,
                 label |-> CLUSTER_LABELS[(i % Len(CLUSTER_LABELS)) + 1],
                 files |-> clusterFiles,
                 representative |->
                   Nearest(clusterFiles, index, result.centroids[i], 1,
                           clusterFiles[1], Infinity)]),
              filesWithEmbeddings, index, result)

\* clusterByTheme(files, embeddings) (lines 18-74): the outcomes, one for
\* each result kmeans can return; kmeansCalls counts the kmeans calls made.
clusterByTheme(fs, index) ==
  LET filesWithEmbeddings == FilesWithEmbeddings(fs, index) IN
  IF Len(filesWithEmbeddings) < 3
  THEN {[kmeansCalls |-> 0, requested |-> 0,
         value |-> <<[id |-> 0, label |-> "All Items",
                      files |-> filesWithEmbeddings,
                      representative |-> IF filesWithEmbeddings = <<>>
                                         THEN undefined
                                         ELSE filesWithEmbeddings[1]]>>]}
  ELSE LET embeddingMatrix ==
             [k \in 1..Len(filesWithEmbeddings) |->
                MapGet(index, filesWithEmbeddings[k].path)] IN
       {[kmeansCalls |-> 1, requested |-> numClusters(Len(filesWithEmbeddings)),
         value |-> SortBySizeDescending(
                     ClustersFrom(0, <<>>, filesWithEmbeddings, index, result))]
        : result \in KMeansResults(embeddingMatrix,
                                   numClusters(Len(filesWithEmbeddings)))}

\* The function reads its arguments only: it is called once on each input.
CallClusterByTheme ==
  /\ call = NoCall
  /\ \E r \in clusterByTheme(files, embeddings) :
       call' = [op |-> "clusterByTheme", result |-> r]
  /\ UNCHANGED <<svcVars, cache, task, appVars, prevRun, displayFiles, clusters, viewer, db>>

ClusterPaths == {PathNames[k] : k \in 1..MaxClusterFiles}
ClusterCollections == {[k \in 1..n |-> SimFile(k)] : n \in 0..MaxClusterFiles}

\* The vectors of one model: all of one length.
ClusterVectors == {v \in [1..2 -> 0..1] : \E k \in 1..2 : v[k] # 0}

InitCluster ==
  /\ InitWith(ClusterCollections, IndexesOver(ClusterPaths, ClusterVectors))
  /\ MapKeys(embeddings) \subseteq PathsOf(files)

NextCluster == CallClusterByTheme

SpecCluster == InitCluster /\ [][NextCluster]_vars

\* ------------------------------------------------- calls of the cache service
\* `result || null` of getEmbedding when the store has no record.
null == [null |-> TRUE]

\* The EmbeddingCache records a caller can hand to saveEmbedding.
StoreEntries ==
  [path : Paths, lastModified : LastMods,
   embedding : {CLIP(f) : f \in MediaFile}, thumbnailUrl : Paths]

\* saveEmbedding(entry) (indexedDBService.ts 34-37): the put transaction
\* commits, or the call rejects and nothing is stored.
CallSaveEmbedding(entry) ==
  /\ \/ /\ cache' = Put(cache, entry)
        /\ call' = [op |-> "saveEmbedding", entry |-> entry, result |-> Returned(null)]
     \/ /\ cache' = cache
        /\ call' = [op |-> "saveEmbedding", entry |-> entry,
                    result |-> Threw("put failed")]
  /\ UNCHANGED <<svcVars, task, appVars, prevRun, displayFiles, clusters, viewer, db>>

\* getEmbedding(path) (indexedDBService.ts 39-43): the record under the key,
\* or null.
CallGetEmbedding(p) ==
  /\ call' = [op |-> "getEmbedding", path |-> p,
              result |-> IF Get(cache, p) = {}
                         THEN Returned(null)
                         ELSE Returned(CHOOSE x \in Get(cache, p) : TRUE)]
  /\ UNCHANGED <<svcVars, cache, task, appVars, prevRun, displayFiles, clusters, viewer, db>>

InitStore == InitCommon /\ cache \in InitialCaches

NextStore ==
  \/ \E entry \in StoreEntries : CallSaveEmbedding(entry)
  \/ \E p \in Paths : CallGetEmbedding(p)

SpecStore == InitStore /\ [][NextStore]_vars

\* ------------------------------------------------ the cluster count requested
MaxEmbedded == 120   \* the most embedded items the cluster count is taken for

\* Lines 33-36 of clusterByTheme with filesWithEmbeddings.length = n: the
\* count it hands to kmeans.
CallNumClusters(n) ==
  /\ call = NoCall
  /\ call' = [op |-> "numClusters", n |-> n, result |-> numClusters(n)]
  /\ UNCHANGED <<svcVars, cache, task, appVars, prevRun, displayFiles, clusters, viewer, db>>

InitCount == InitCommon /\ cache = {}

NextCount == \E n \in 3..MaxEmbedded : CallNumClusters(n)

SpecCount == InitCount /\ [][NextCount]_vars

\* ------------------------------------------------------- the App's viewer
\* files.indexOf(file): the 0-based index of the first occurrence, or -1.
IndexOf(fs, f) ==
  IF \E k \in 1..Len(fs) : fs[k] = f
  THEN (CHOOSE k \in 1..Len(fs) : fs[k] = f /\ \A l \in 1..(k - 1) : fs[l] # f) - 1
  ELSE 0 - 1

\* handleFileClick(file, index) (App.tsx 149-153).
HandleFileClick(file, index) ==
  /\ viewer' = [viewer EXCEPT !.viewerFile = file, !.viewerIndex = index,
                              !.viewMode = "viewer"]
  /\ UNCHANGED <<svcVars, cache, task, appVars, prevRun, displayFiles, clusters,
                 call, db>>

\* A click on the tile at `index` of GridView, which shows displayFiles.
ClickInGrid(index) ==
  /\ viewer.viewMode = "grid" /\ ~viewer.showClusters
  /\ index \in 0..(Len(displayFiles) - 1)
  /\ HandleFileClick(displayFiles[index + 1], index)

\* A click on member j of cluster c in the theme view (App.tsx 365-370):
\* handleFileClick(file, files.indexOf(file)).
ClickInCluster(c, j) ==
  /\ viewer.viewMode = "grid" /\ viewer.showClusters
  /\ c \in 1..Len(clusters)
  /\ j \in 1..Len(clusters[c].files)
  /\ HandleFileClick(clusters[c].files[j], IndexOf(files, clusters[c].files[j]))

\* The Viewer is rendered when viewMode.type === 'viewer' && viewerFile.
ViewerOpen == viewer.viewMode = "viewer" /\ viewer.viewerFile # [null |-> TRUE]

\* handleViewerNext (App.tsx 155-159).
HandleViewerNext ==
  LET nextIndex == (viewer.viewerIndex + 1) % Len(displayFiles) IN
  /\ ViewerOpen
  /\ viewer' = [viewer EXCEPT !.viewerIndex = nextIndex,
                              !.viewerFile = displayFiles[nextIndex + 1]]
  /\ UNCHANGED <<svcVars, cache, task, appVars, prevRun, displayFiles, clusters,
                 call, db>>

\* handleViewerPrevious (App.tsx 161-165).
HandleViewerPrevious ==
  LET prevIndex == (viewer.viewerIndex - 1 + Len(displayFiles)) % Len(displayFiles) IN
  /\ ViewerOpen
  /\ viewer' = [viewer EXCEPT !.viewerIndex = prevIndex,
                              !.viewerFile = displayFiles[prevIndex + 1]]
  /\ UNCHANGED <<svcVars, cache, task, appVars, prevRun, displayFiles, clusters,
                 call, db>>

\* The Viewer's onClose.
CloseViewer ==
  /\ ViewerOpen
  /\ viewer' = [viewer EXCEPT !.viewMode = "grid"]
  /\ UNCHANGED <<svcVars, cache, task, appVars, prevRun, displayFiles, clusters,
                 call, db>>

\* handleFindSimilar(file) (App.tsx 183-198), from the context menu of a tile
\* of the grid or of the theme view.
HandleFindSimilar(file) ==
  LET r == sortBySimilarity(file, files, embeddings) IN
  /\ viewer.viewMode = "grid"
  /\ IF MapSize(embeddings) = 0 \/ r.kind = "error"
     THEN UNCHANGED <<displayFiles, viewer>>
     ELSE /\ displayFiles' = r.value
          /\ viewer' = [viewer EXCEPT !.showClusters = FALSE, !.viewMode = "grid"]
  /\ UNCHANGED <<svcVars, cache, task, appVars, prevRun, clusters, call, db>>

\* handleGroupByTheme (App.tsx 167-181), from the toolbar.
HandleGroupByTheme ==
  /\ IF MapSize(embeddings) = 0
     THEN UNCHANGED <<clusters, viewer>>
     ELSE \E r \in clusterByTheme(files, embeddings) :
            /\ clusters' = r.value
            /\ viewer' = [viewer EXCEPT !.showClusters = TRUE]
  /\ UNCHANGED <<svcVars, cache, task, appVars, prevRun, displayFiles, call, db>>

\* handleResetView (App.tsx 200-204); originalFiles is files since the load.
HandleResetView ==
  /\ displayFiles' = files
  /\ viewer' = [viewer EXCEPT !.showClusters = FALSE, !.viewMode = "grid"]
  /\ UNCHANGED <<svcVars, cache, task, appVars, prevRun, clusters, call, db>>

\* A collection is loaded and its indexing has ended, with any outcome.
InitView ==
  /\ InitWith(SimCollections, IndexesOver(SimPaths, ClusterVectors))
  /\ files # <<>>
  /\ MapKeys(embeddings) \subseteq PathsOf(files)

NextView ==
  \/ \E index \in 0..(MaxSimFiles - 1) : ClickInGrid(index)
  \/ \E c, j \in 1..MaxSimFiles : ClickInCluster(c, j)
  \/ HandleViewerNext
  \/ HandleViewerPrevious
  \/ CloseViewer
  \/ \E k \in 1..MaxSimFiles : k <= Len(files) /\ HandleFindSimilar(files[k])
  \/ HandleGroupByTheme
  \/ HandleResetView

SpecView == InitView /\ [][NextView]_vars

\* ------------------------------------------------------------------ getDB
\* The cache operations every caller of this section makes, and the items
\* they are made for.
DBOperations == {"saveEmbedding", "getEmbedding"}
DBItems == {f \in MediaFile : f.lastModified = 1}

\* Caller t calls saveEmbedding or getEmbedding for f; the operation calls
\* getDB (indexedDBService.ts 19-32), which returns dbInstance when it is set
\* and otherwise calls openDB and awaits it.  task[t].prom is the connection
\* the caller awaits.
GetDB(t, op, f) ==
  /\ task[t].pc = "idle"
  /\ IF db.dbInstance # 0
     THEN /\ task' = [task EXCEPT ![t] = [IdleTask EXCEPT !.pc = "getDB",
                        !.ret = op, !.files = <<f>>, !.prom = db.dbInstance]]
          /\ db' = db
     ELSE /\ task' = [task EXCEPT ![t] = [IdleTask EXCEPT !.pc = "openDB",
                        !.ret = op, !.files = <<f>>, !.prom = db.openCalls + 1]]
          /\ db' = [db EXCEPT !.openCalls = db.openCalls + 1]
  /\ UNCHANGED <<svcVars, cache, appVars, prevRun, displayFiles, clusters, call,
                 viewer>>

\* `await openDB(...)` of line 22 ends: the connection is assigned to
\* dbInstance, or openDB rejects and the operation rejects with it.
OpenDBResume(t) ==
  /\ task[t].pc = "openDB"
  /\ \/ /\ db' = [db EXCEPT !.dbInstance = task[t].prom]
        /\ task' = [task EXCEPT ![t].pc = "getDB"]
     \/ /\ db' = db
        /\ task' = [task EXCEPT ![t].pc = "done", ![t].prom = 0,
                                ![t].errs = <<"openDB failed">>]
  /\ UNCHANGED <<svcVars, cache, appVars, prevRun, displayFiles, clusters, call,
                 viewer>>

\* `await getDB()` of the operation ends and the operation runs on the
\* connection it was given: db.put for saveEmbedding, db.get for getEmbedding.
GetDBResume(t) ==
  LET f == task[t].files[1] IN
  /\ task[t].pc = "getDB"
  /\ cache' = IF task[t].ret = "saveEmbedding"
              THEN Put(cache, CacheEntryFor(f, CLIP(f)))
              ELSE cache
  /\ task' = [task EXCEPT ![t].pc = "done"]
  /\ UNCHANGED <<svcVars, appVars, prevRun, displayFiles, clusters, call, viewer, db>>

InitDB == InitCommon /\ cache = {}

NextDB ==
  \/ \E t \in Tasks, op \in DBOperations, f \in DBItems : GetDB(t, op, f)
  \/ \E t \in Tasks : OpenDBResume(t)
  \/ \E t \in Tasks : GetDBResume(t)

SpecDB == InitDB /\ [][NextDB]_vars

\* ================================================================== claims
Range(q) == {q[k] : k \in 1..Len(q)}

\* The job of task t that ends `await getEmbedding` with the store read.
ReadStep(t) ==
  /\ task[t].pc = "getEmbedding"
  /\ task'[t] # task[t]
  /\ task'[t].failed = task[t].failed

\* C1: when generateEmbedding reads a cache entry stored under the item's path
\* with the item's lastModified, it returns that entry's embedding (the batch
\* records it for the path) and starts no frame extraction, no inference and
\* no model load; the model state and the cache are left as they were.
C1_CacheHitDoesNoWork ==
  [][\A t \in Tasks :
       LET s == task[t]
           f == s.files[s.i] IN
       (ReadStep(t) /\ \E x \in cache : x.path = f.path /\ x.lastModified = f.lastModified)
       => /\ \E x \in cache : /\ x.path = f.path
                              /\ <<f.path, x.embedding>> \in task'[t].emb
                              /\ task'[t].progress = Append(s.progress, <<s.i, Len(s.files)>>)
          /\ task'[t].extractCalls = s.extractCalls
          /\ task'[t].modelCalls = s.modelCalls
          /\ task'[t].loadCalls = s.loadCalls
          /\ task'[t].pc \in {"getEmbedding", "done"}
          /\ UNCHANGED <<svcVars, cache>>]_vars

\* C1 witness: a run that returned an earlier session's embedding for "a"
\* without an extraction, an inference or a load.
C1_Witness ==
  \E t \in Tasks :
    /\ task[t].pc = "done"
    /\ <<"a", LegacyEmbedding("a")>> \in task[t].emb
    /\ task[t].extractCalls = 0 /\ task[t].modelCalls = 0 /\ task[t].loadCalls = 0

\* The items of a run whose generateEmbedding call returned.
Succeeded(s) == (1..Len(s.files)) \ Range(s.failed)

\* C2: whatever items fail, batchGenerateEmbeddings calls generateEmbedding for
\* every item, one after the other in input order, returns, and the returned
\* map's keys are exactly the paths of the items that did not fail.
C2_BatchCoversAllItems ==
  \A t \in Tasks :
    LET s == task[t] IN
    s.owner = "harness" =>
      /\ s.attempts = s.i
      /\ s.i <= Len(s.files)
      /\ \A k \in 1..Len(s.failed) : s.failed[k] <= s.i
      /\ s.pc = "done" =>
           /\ s.attempts = Len(s.files)
           /\ MapKeys(s.emb) = {s.files[k].path : k \in Succeeded(s)}
           /\ MapSize(s.emb) = Cardinality(Succeeded(s))

\* C2 witness: a run over two items returned with the first item failed and
\* the second in the map.
C2_Witness ==
  \E t \in Tasks :
    /\ task[t].pc = "done"
    /\ Len(task[t].files) = 2
    /\ task[t].failed = <<1>>
    /\ MapKeys(task[t].emb) = {task[t].files[2].path}

\* The model loads still pending, and the calls suspended in the loader's await.
PendingLoads == {k \in 1..Len(promises) : promises[k] = "pending"}
Loaders == {t \in Tasks : task[t].pc = "awaitLoad"}

\* The job in which task t calls initializeModel from outside.
EntersInitializeModel(t) == task[t].pc = "idle" /\ task'[t].pc # "idle"

\* C3: under any interleaving of initializeModel callers at most one load is
\* pending; a load is started only when the model is not loaded, no load is
\* pending or unhandled and no earlier load succeeded; a caller that arrives
\* while a load is pending starts none and waits for that load's promise.
C3_SingleLoad ==
  /\ [](Cardinality(PendingLoads) <= 1)
  /\ [][Len(promises') > Len(promises)
          => /\ ~clipModel
             /\ Loaders = {}
             /\ \A k \in 1..Len(promises) : promises[k] = "rejected"
             /\ Len(promises') = Len(promises) + 1]_vars
  /\ [][\A t \in Tasks :
          (EntersInitializeModel(t) /\ PendingLoads # {})
          => /\ promises' = promises
             /\ task'[t].pc = "awaitWait"
             /\ task'[t].prom \in PendingLoads]_vars

\* C3 witness: one call awaits the load it started and two more wait for the
\* same pending promise.
C3_Witness ==
  \E t, u, v \in Tasks :
    /\ u # v
    /\ task[t].pc = "awaitLoad" /\ promises[task[t].prom] = "pending"
    /\ task[u].pc = "awaitWait" /\ task[u].prom = task[t].prom
    /\ task[v].pc = "awaitWait" /\ task[v].prom = task[t].prom

\* C4: a cache entry under the item's path with another lastModified is a miss:
\* the read returns nothing to the batch, the call goes on to the model load or
\* the frame extraction, and when the call returns the store holds under that
\* path exactly the record {path, the item's lastModified, the new embedding},
\* which is also the embedding the batch records.
C4_StaleIsRegenerated ==
  [][\A t \in Tasks :
       LET s == task[t]
           f == s.files[s.i]
           stale == \E x \in cache : x.path = f.path /\ x.lastModified # f.lastModified IN
       /\ (ReadStep(t) /\ stale)
          => /\ task'[t].emb = s.emb
             /\ task'[t].progress = s.progress
             /\ task'[t].i = s.i
             /\ task'[t].pc \in {"extract", "awaitLoad"}
             /\ task'[t].pc = "extract" => task'[t].extractCalls = s.extractCalls + 1
       /\ (s.pc = "saveEmbedding" /\ stale /\ task'[t].failed = s.failed /\ task'[t] # s)
          => /\ s.extractCalls > 0 /\ s.modelCalls > 0
             /\ Get(cache', f.path) = {CacheEntryFor(f, CLIP(f))}
             /\ <<f.path, CLIP(f)>> \in task'[t].emb]_vars

\* C4 witness: "a" was indexed with lastModified 1 in the run before, and the
\* run over "a" with lastModified 2 has returned with the new embedding in the
\* map and the store.
C4_Witness ==
  \E t \in Tasks :
    LET f == [path |-> "a", lastModified |-> 2] IN
    /\ task[t].pc = "done"
    /\ task[t].files = <<f>>
    /\ <<"a", <<"a", 1>>>> \in prevRun.emb
    /\ task[t].emb = {<<"a", CLIP(f)>>}
    /\ Get(cache, "a") = {CacheEntryFor(f, CLIP(f))}

\* The second of two runs over the same collection has returned.
SecondRunDone(s) == s.owner = "harness" /\ s.pc = "done" /\ s.files = prevRun.files

\* C5 as claimed: the second run over an unchanged collection returns the first
\* run's map with no inference and no frame extraction.
C5_Original ==
  \A t \in Tasks :
    SecondRunDone(task[t])
    => /\ task[t].emb = prevRun.emb
       /\ task[t].modelCalls = 0
       /\ task[t].extractCalls = 0

\* C5 amended: when every item succeeded in the first run, the second run makes
\* no inference, no frame extraction and no model load, every embedding it
\* returns is the first run's, and when all its cache reads succeed its map is
\* the first run's map.
C5_SecondRunFromCache ==
  \A t \in Tasks :
    (SecondRunDone(task[t]) /\ prevRun.failed = <<>>)
    => /\ task[t].modelCalls = 0
       /\ task[t].extractCalls = 0
       /\ task[t].loadCalls = 0
       /\ task[t].emb \subseteq prevRun.emb
       /\ task[t].failed = <<>> => task[t].emb = prevRun.emb

\* C5 witness: a second run over two items, all served, none failed in either.
C5_Witness ==
  \E t \in Tasks :
    /\ SecondRunDone(task[t])
    /\ Len(task[t].files) = 2
    /\ prevRun.failed = <<>>
    /\ task[t].failed = <<>>
    /\ MapSize(task[t].emb) = 2

\* C6 as claimed: onProgress is called once after every item, failed or not,
\* with the number of items handled so far, so a run that returned has made
\* one call per item, the last with processed = n.
C6_ProgressAfterEveryItem ==
  \A t \in Tasks :
    LET s == task[t]
        handled == IF s.pc = "done" THEN s.i ELSE s.i - 1 IN
    s.owner = "harness"
    => /\ Len(s.progress) = handled
       /\ \A k \in 1..Len(s.progress) : s.progress[k] = <<k, Len(s.files)>>

\* C7 as claimed: the per-item error callback has been called once for each
\* item that failed, in order, and for no other item.
C7_ErrorCallbackPerFailure ==
  \A t \in Tasks : task[t].pc = "done" => task[t].errCb = task[t].failed

\* The job in which initializeModel resumes in task t after its promise rejected.
ResumesRejected(t, pc) ==
  /\ task[t].pc = pc
  /\ promises[task[t].prom] = "rejected"
  /\ task'[t] # task[t]

\* C8: when a load fails, the call that started it throws, clears the loading
\* flag and leaves the model unloaded; every call that waited on it throws too;
\* and a call made once the failure is handled starts a load of its own, on a
\* new promise, and is suspended on it.
C8_FailedLoadIsRetried ==
  [][\A t \in Tasks :
       /\ ResumesRejected(t, "awaitLoad")
          => /\ task'[t].initRes = "threw" /\ task'[t].pc = "done"
             /\ ~isModelLoading'
             /\ ~clipModel'
       /\ ResumesRejected(t, "awaitWait")
          => task'[t].initRes = "threw" /\ task'[t].pc = "done"
       /\ (/\ EntersInitializeModel(t)
           /\ Loaders = {}
           /\ modelLoadPromise # 0
           /\ promises[modelLoadPromise] = "rejected")
          => /\ promises' = Append(promises, "pending")
             /\ modelLoadPromise' = Len(promises')
             /\ isModelLoading'
             /\ task'[t].pc = "awaitLoad"
             /\ task'[t].prom = modelLoadPromise']_vars

\* C8 witness: the first load failed, its loader and its waiter both threw, and
\* a later call awaits a second load.
C8_Witness ==
  \E t, u, v \in Tasks :
    /\ promises = <<"rejected", "pending">>
    /\ task[t].role = "loader" /\ task[t].prom = 1 /\ task[t].initRes = "threw"
    /\ task[u].role = "waiter" /\ task[u].prom = 1 /\ task[u].initRes = "threw"
    /\ task[v].pc = "awaitLoad" /\ task[v].prom = 2

\* C9 as claimed: the session index never holds an entry for a path that is
\* not in the loaded collection, also when a run started for the collection
\* loaded before is still in flight and ends later.
C9_IndexWithinCollection == MapKeys(embeddings) \subseteq PathsOf(files)

\* C10: a startIndexing call whose model load failed reports it once, as the
\* AI-disabled message, and its batch is never started: no generateEmbedding
\* call, no frame extraction, no inference, no item failure, no per-item
\* error report, no progress report.
C10_LoadFailureReportedOnce ==
  \A t \in Tasks :
    LET s == task[t] IN
    (s.owner = "app" /\ s.pc = "done" /\ s.initRes = "threw")
    => /\ s.errs = <<InitFailedMsg>>
       /\ s.attempts = 0
       /\ s.extractCalls = 0 /\ s.modelCalls = 0
       /\ s.failed = <<>> /\ s.errCb = <<>> /\ s.progress = <<>>
       /\ s.emb = {}

\* C10 witness: a run over two items ended in the catch block while the model
\* is not loaded, and the App shows the AI-disabled message.
C10_Witness ==
  \E t \in Tasks :
    /\ task[t].owner = "app" /\ task[t].pc = "done" /\ task[t].initRes = "threw"
    /\ Len(task[t].files) = 2
    /\ ~clipModel
    /\ indexingError = InitFailedMsg
    /\ indexingProgress = IdleProgress

\* C11 as claimed: a cache operation that fails (the store cannot be read, the
\* record cannot be written) does not fail the item: the job that ends the
\* read goes on to generate the embedding and the job that ends the write
\* records the generated embedding, so the item is never added to the failed
\* ones by a cache error.
C11_DegradesToUncached ==
  [][\A t \in Tasks :
       LET s == task[t] IN
       /\ s.pc = "getEmbedding" => task'[t].failed = s.failed
       /\ (s.pc = "saveEmbedding" /\ task'[t] # s)
          => <<s.files[s.i].path, CLIP(s.files[s.i])>> \in task'[t].emb]_vars

\* C12 as claimed: once the user has signalled that indexing is to stop (the
\* AI switch is off, the only such signal the App has), a run in flight starts
\* no further item: no further generateEmbedding call is made while the signal
\* stands.
C12_CancelStopsTheRun ==
  [][\A t \in Tasks :
       (task[t].owner = "app" /\ ~aiEnabled /\ ~aiEnabled')
       => task'[t].attempts = task[t].attempts]_vars

\* The ranked items of a sortBySimilarity result: what follows the prepended
\* target, or all of it when nothing was prepended.
Ranked(r) == IF r.prepended THEN Tail(r.value) ELSE r.value

\* C13 as claimed: for every target and collection, no ranked item of a
\* sortBySimilarity result has the target's path and every ranked item has an
\* embedding in the index, also when the target has none.
C13_RankedExcludesTargetAndUnembedded ==
  (call.op = "sortBySimilarity" /\ call.result.kind = "value")
  => \A k \in 1..Len(Ranked(call.result)) :
       /\ Ranked(call.result)[k].path # call.targetFile.path
       /\ MapHas(embeddings, Ranked(call.result)[k].path)

\* The position of a file in the collection.
PositionIn(fs, f) == CHOOSE k \in 1..Len(fs) : fs[k] = f

\* The similarity sortBySimilarity computes for file f and target t.
SimilarityTo(t, f) ==
  cosineSimilarity(MapGet(embeddings, t.path), MapGet(embeddings, f.path))

\* v is the target t, then each other embedded item of the collection once,
\* in non-increasing similarity to t, equally similar ones in input order.
TargetThenRanked(v, t) ==
  LET others == {k \in 1..Len(files) :
                   MapHas(embeddings, files[k].path) /\ files[k].path # t.path} IN
  /\ v # <<>>
  /\ v[1] = t
  /\ Len(v) = 1 + Cardinality(others)
  /\ {v[k] : k \in 2..Len(v)} = {files[k] : k \in others}
  /\ MapHas(embeddings, t.path)
     => \A i, j \in 2..Len(v) :
          i < j => /\ ~Greater(SimilarityTo(t, v[j]), SimilarityTo(t, v[i]))
                   /\ ~Greater(SimilarityTo(t, v[i]), SimilarityTo(t, v[j]))
                      => PositionIn(files, v[i]) < PositionIn(files, v[j])

\* C16 as claimed: the find-similar result is the target, then the other
\* embedded items in non-increasing cosine similarity to it, ties in the
\* order of the input collection.
C16_TargetThenRankedStable ==
  (call.op = "sortBySimilarity" /\ call.result.kind = "value")
  => TargetThenRanked(call.result.value, call.targetFile)

\* C18 as claimed: called with two vectors of different lengths, each of
\* cosineSimilarity, the exported euclideanDistance and clusterByTheme's
\* euclideanDistance throws.
C18_MismatchedLengthsThrow ==
  (call.op \in {"cosineSimilarity", "euclideanDistance", "localEuclideanDistance"}
     /\ Len(call.a) # Len(call.b))
  => call.result.kind = "error"

\* The positions in the collection of the items that have an embedding.
Embedded == {k \in 1..Len(files) : MapHas(embeddings, files[k].path)}

\* The places <<c, j>> of a cluster list at which file f stands.
PlacesOf(cs, f) ==
  {p \in UNION {{<<c, j>> : j \in 1..Len(cs[c].files)} : c \in 1..Len(cs)} :
     cs[p[1]].files[p[2]] = f}

\* C14: in every result of clusterByTheme each item of the collection that
\* has an embedding stands at exactly one place of exactly one cluster, and
\* every cluster member is an item of the collection that has an embedding.
C14_ClustersPartitionEmbedded ==
  call.op = "clusterByTheme"
  => LET cs == call.result.value IN
     /\ \A k \in Embedded : Cardinality(PlacesOf(cs, files[k])) = 1
     /\ \A c \in 1..Len(cs) : \A j \in 1..Len(cs[c].files) :
          \E k \in Embedded : cs[c].files[j] = files[k]

\* C14 witness: k-means ran on three embedded items of a collection of four
\* and the result has two clusters.
C14_Witness ==
  /\ call.op = "clusterByTheme"
  /\ call.result.kmeansCalls = 1
  /\ Len(files) = 4 /\ Cardinality(Embedded) = 3
  /\ Len(call.result.value) = 2

\* C15: with fewer than three embedded items in the collection, whatever its
\* size, clusterByTheme returns one cluster, its members are the embedded
\* items, each once and in the order of the collection, and kmeans was not
\* called.
C15_FewEmbeddedOneCluster ==
  (call.op = "clusterByTheme" /\ Cardinality(Embedded) < 3)
  => LET cs == call.result.value IN
     /\ Len(cs) = 1
     /\ Len(cs[1].files) = Cardinality(Embedded)
     /\ {cs[1].files[j] : j \in 1..Len(cs[1].files)} = {files[k] : k \in Embedded}
     /\ \A i, j \in 1..Len(cs[1].files) :
          i < j => PositionIn(files, cs[1].files[i]) < PositionIn(files, cs[1].files[j])
     /\ call.result.kmeansCalls = 0

\* C15 witness: a collection of four with the second and the fourth item
\* embedded gave one cluster of these two.
C15_Witness ==
  /\ call.op = "clusterByTheme"
  /\ Len(files) = 4 /\ Embedded = {2, 4}
  /\ Len(call.result.value) = 1
  /\ call.result.value[1].files = <<files[2], files[4]>>

\* The call of saveEmbedding that just returned.
Saved == call.op = "saveEmbedding" /\ call.result.kind = "value"

\* C17: a getEmbedding(entry.path) that follows a saveEmbedding(entry) returns
\* a record with the path, lastModified, embedding and thumbnailUrl written,
\* whatever was stored under the path before; the store never holds two
\* records of one path; and a second saveEmbedding of the same entry leaves
\* the store as the first left it.
C17_SaveThenGetRoundTrip ==
  /\ [](\A x, y \in cache : x.path = y.path => x = y)
  /\ [][(Saved /\ call'.op = "getEmbedding" /\ call'.path = call.entry.path)
          => /\ call'.result.kind = "value"
             /\ call'.result.value.path = call.entry.path
             /\ call'.result.value.lastModified = call.entry.lastModified
             /\ call'.result.value.embedding = call.entry.embedding
             /\ call'.result.value.thumbnailUrl = call.entry.thumbnailUrl]_vars
  /\ [][(Saved /\ call'.op = "saveEmbedding" /\ call'.entry = call.entry)
          => cache' = cache]_vars

\* C17 witness: the record of an earlier session stored under "a" was
\* replaced by a saved one with another lastModified, embedding and frame,
\* and the read that followed returned the saved one.
C17_Witness ==
  LET e == [path |-> "a", lastModified |-> 2,
            embedding |-> CLIP([path |-> "b", lastModified |-> 2]),
            thumbnailUrl |-> "b"] IN
  /\ call.op = "getEmbedding" /\ call.path = "a"
  /\ call.result = Returned(e)
  /\ cache = {e, [path |-> "b", lastModified |-> 1,
                  embedding |-> LegacyEmbedding("b"), thumbnailUrl |-> "b"]}

\* The job in which a startIndexing call of task t calls
\* batchGenerateEmbeddings, and the job in which that call returns.
BatchStarts(t) ==
  /\ task[t].pc \in {"idle", "done", "awaitLoad", "awaitWait"}
  /\ task'[t].owner = "app"
  /\ task'[t].pc = "getEmbedding"
BatchEnds(t) ==
  /\ task[t].pc \in {"getEmbedding", "extract", "infer", "saveEmbedding"}
  /\ task[t].owner = "app"
  /\ task'[t].pc = "done"

\* C19: the processed counts one batch run passes to onProgress are strictly
\* increasing, and the job that starts a run's batch leaves the progress
\* state at processed = 0 (total = the run's item count, indexing) with no
\* item reported yet.
C19_ProgressIncreasesFromZero ==
  /\ [](\A t \in Tasks : \A k, l \in 1..Len(task[t].progress) :
          k < l => task[t].progress[k][1] < task[t].progress[l][1])
  /\ [][\A t \in Tasks :
          BatchStarts(t)
          => /\ task'[t].progress = <<>>
             /\ indexingProgress' = [total |-> Len(task'[t].files),
                                     processed |-> 0, isIndexing |-> TRUE]]_vars

\* C19 witness: a run that started while another was in flight has reported
\* 1 and then 2 of its two items, and the other has reported too.
C19_Witness ==
  \E t, u \in Tasks :
    /\ t # u
    /\ task[t].owner = "app" /\ task[t].progress = <<<<1, 2>>, <<2, 2>>>>
    /\ task[u].owner = "app" /\ task[u].pc = "done" /\ task[u].progress # <<>>

\* C20: when the batch of a startIndexing call returns an empty map, the call
\* takes the map (no exception: the catch block's message is not set), sets
\* the no-embeddings message, and leaves files and displayFiles as they were.
C20_NoSuccessIsDegradedNotFatal ==
  [][\A t \in Tasks :
       (BatchEnds(t) /\ task'[t].emb = {})
       => /\ embeddings' = {}
          /\ indexingError' = NoEmbeddingsMsg
          /\ task'[t].errs = <<NoEmbeddingsMsg>>
          /\ files' = files
          /\ displayFiles' = displayFiles]_vars

\* C20 witness: both items of the loaded collection failed, the run is over,
\* the message is shown and the collection is still the displayed one.
C20_Witness ==
  \E t \in Tasks :
    /\ task[t].owner = "app" /\ task[t].pc = "done"
    /\ task[t].failed = <<1, 2>>
    /\ task[t].files = files /\ displayFiles = files /\ Len(files) = 2
    /\ embeddings = {}
    /\ indexingError = NoEmbeddingsMsg

\* C21: the cache changes only in the job that ends an item's saveEmbedding
\* with success, after that item's frame extraction and inference; the change
\* is the put of that item's record and removes no other path's record; a job
\* that fails an item, and every other job, leaves the cache as it was.
C21_CacheWrittenOnlyOnSuccess ==
  [][/\ cache' # cache
        => \E t \in Tasks :
             LET s == task[t]
                 f == s.files[s.i] IN
             /\ s.pc = "saveEmbedding"
             /\ s.extractCalls >= 1 /\ s.modelCalls >= 1
             /\ task'[t].failed = s.failed
             /\ <<f.path, CLIP(f)>> \in task'[t].emb
             /\ Get(cache', f.path) = {CacheEntryFor(f, CLIP(f))}
             /\ \A x \in cache : x.path # f.path => x \in cache'
             /\ \A x \in cache' : x.path # f.path => x \in cache
     /\ \A t \in Tasks : task'[t].failed # task[t].failed => cache' = cache]_vars

\* C21 witness: the second item, indexed by an earlier session with another
\* lastModified, failed after its inference was started; its old record is
\* still there, next to the new record of the first item.
C21_Witness ==
  \E t \in Tasks :
    LET s == task[t] IN
    /\ s.pc = "done" /\ Len(s.files) = 2
    /\ s.failed = <<2>> /\ s.modelCalls = 2
    /\ s.files[2] = [path |-> "b", lastModified |-> 2]
    /\ Get(cache, "b") = {[path |-> "b", lastModified |-> 1,
                           embedding |-> LegacyEmbedding("b"), thumbnailUrl |-> "b"]}
    /\ Get(cache, "a") = {CacheEntryFor(s.files[1], CLIP(s.files[1]))}

\* C22: for n >= 3 embedded items the cluster count requested is 3 when
\* n < 40, floor(n / 10) when 40 <= n < 100, and 10 when n >= 100.
C22_ClusterCountClamped ==
  call.op = "numClusters"
  => call.result = IF call.n < 40 THEN 3
                   ELSE IF call.n < 100 THEN call.n \div 10
                   ELSE 10

\* C22 witness: 10 clusters were requested for 120 items.
C22_Witness == call.op = "numClusters" /\ call.n = 120 /\ call.result = 10

\* C29: the cluster count requested never exceeds the number of embedded
\* items, for every n >= 3.
C29_ClusterCountAtMostItems ==
  call.op = "numClusters" => call.result <= call.n

\* C29 witness: 3 clusters were requested for 3 items.
C29_Witness == call.op = "numClusters" /\ call.n = 3 /\ call.result = 3

\* C24: the clusters of a result stand in non-increasing member count, and
\* of two clusters with the same member count the one with the smaller id
\* stands first.
C24_ClustersBySizeThenId ==
  call.op = "clusterByTheme"
  => LET cs == call.result.value IN
     \A c, d \in 1..Len(cs) :
       c < d => /\ Len(cs[c].files) >= Len(cs[d].files)
                /\ Len(cs[c].files) = Len(cs[d].files) => cs[c].id < cs[d].id

\* C24 witness: the cluster with id 2 has two members and stands before the
\* clusters 0 and 1 of one member each.
C24_Witness ==
  /\ call.op = "clusterByTheme"
  /\ Len(call.result.value) = 3
  /\ call.result.value[1].id = 2 /\ Len(call.result.value[1].files) = 2
  /\ call.result.value[2].id = 0
  /\ call.result.value[3].id = 1

\* The squared distance of member f of cluster c to the mean of c's members,
\* times the squared member count.
DistanceToMean(c, f) ==
  LET n == Len(c.files)
      total == SumRows([k \in 1..n |-> MapGet(embeddings, c.files[k].path)])
      e == MapGet(embeddings, f.path) IN
  Sum([i \in 1..Len(e) |-> (n * e[i] - total[i]) * (n * e[i] - total[i])])

\* The representative of c is a member of c, no member is nearer to the
\* centroid, and no member as near stands before it in the collection.
RepresentativeIsNearest(c) ==
  /\ \E j \in 1..Len(c.files) : c.files[j] = c.representative
  /\ \A j \in 1..Len(c.files) :
       /\ DistanceToMean(c, c.representative) <= DistanceToMean(c, c.files[j])
       /\ DistanceToMean(c, c.representative) = DistanceToMean(c, c.files[j])
          => PositionIn(files, c.representative) <= PositionIn(files, c.files[j])

\* C23 as claimed: in every cluster of every result the representative is a
\* member, nearest to the cluster's centroid, the first of the nearest.
C23_Original ==
  call.op = "clusterByTheme"
  => \A c \in 1..Len(call.result.value) :
       RepresentativeIsNearest(call.result.value[c])

\* C23 amended: the same in every cluster that has members; the one cluster
\* without members, returned when no item has an embedding, has no
\* representative.
C23_RepresentativeNearestCentroid ==
  call.op = "clusterByTheme"
  => \A c \in 1..Len(call.result.value) :
       IF call.result.value[c].files = <<>>
       THEN Embedded = {} /\ call.result.value[c].representative = undefined
       ELSE RepresentativeIsNearest(call.result.value[c])

\* C23 witness: kmeans put three items into one cluster and its
\* representative is the third of them.
C23_Witness ==
  /\ call.op = "clusterByTheme"
  /\ call.result.kmeansCalls = 1
  /\ \E c \in 1..Len(call.result.value) :
       /\ Len(call.result.value[c].files) = 3
       /\ call.result.value[c].representative = call.result.value[c].files[3]

\* C25 as claimed: every cluster of every result has at least one member and
\* a representative, for every collection and index.
C25_Original ==
  call.op = "clusterByTheme"
  => \A c \in 1..Len(call.result.value) :
       /\ call.result.value[c].files # <<>>
       /\ call.result.value[c].representative # undefined

\* C25 amended: when at least one item has an embedding, every cluster of the
\* result has a member and a representative that is one of its members (the
\* cluster indices kmeans left without rows are dropped); when no item has
\* one, the result is the one cluster without members and representative.
C25_NoEmptyClusterUnlessNothingEmbedded ==
  call.op = "clusterByTheme"
  => LET cs == call.result.value IN
     IF Embedded = {}
     THEN Len(cs) = 1 /\ cs[1].files = <<>> /\ cs[1].representative = undefined
     ELSE \A c \in 1..Len(cs) :
            /\ cs[c].files # <<>>
            /\ \E j \in 1..Len(cs[c].files) : cs[c].files[j] = cs[c].representative

\* C25 witness: kmeans put all four items under one of the three indices and
\* the result has that one cluster.
C25_Witness ==
  /\ call.op = "clusterByTheme"
  /\ call.result.kmeansCalls = 1 /\ call.result.requested = 3
  /\ Cardinality(Embedded) = 4
  /\ Len(call.result.value) = 1

\* C26 as claimed: when the batch of a startIndexing call has returned and no
\* other run is in flight, the indexing-in-progress flag is false, whichever
\* items failed.
C26_IndexingFlagClearedAtEnd ==
  [][\A t \in Tasks :
       (BatchEnds(t) /\ \A u \in Tasks : task'[u].pc \in {"idle", "done"})
       => ~indexingProgress'.isIndexing]_vars

\* C27 as claimed: at most one startIndexing call is in flight at any time.
C27_OneRunAtATime == Cardinality(Running) <= 1

\* C28 as claimed: whenever the viewer is open, viewerIndex is an index of
\* displayFiles and viewerFile is the file at it.
C28_ViewerShowsDisplayedFile ==
  ViewerOpen
  => /\ viewer.viewerIndex \in 0..(Len(displayFiles) - 1)
     /\ viewer.viewerFile = displayFiles[viewer.viewerIndex + 1]

\* C30 as claimed: under any interleaving of first calls of the cache
\* operations, openDB is called at most once and every operation runs on the
\* one connection.
C30_DatabaseOpenedOnce ==
  /\ db.openCalls <= 1
  /\ \A t, u \in Tasks :
       (task[t].pc \in {"getDB", "done"} /\ task[t].prom # 0 /\
        task[u].pc \in {"getDB", "done"} /\ task[u].prom # 0)
       => task[t].prom = task[u].prom

====
